---- MODULE Spec2Model ----
(***************************************************************************)
(* Model of release.js, the release script of the monorepo: it resolves a  *)
(* target version, rewrites the root manifest and every package manifest,  *)
(* builds, commits, publishes every package and pushes a tag.              *)
(*                                                                         *)
(* Text that the script inspects character by character (versions,         *)
(* dependency keys, directory names) is a sequence of one-character        *)
(* strings.  Text that the script only passes along (command words,        *)
(* version ranges of dependencies) is a one-element sequence holding the   *)
(* whole word.                                                             *)
(***************************************************************************)
EXTENDS Integers, Sequences, FiniteSets, TLC

(***************************************************************************)
(* Bounds of the model.                                                    *)
(***************************************************************************)
\* largest number of directories under packages/
MaxPackages == 2

(***************************************************************************)
(* Characters and strings.                                                 *)
(***************************************************************************)
Digits == {"0", "1", "2", "3", "4", "5", "6", "7", "8", "9"}

Letters ==
  {"a", "b", "c", "d", "e", "f", "g", "h", "i", "j", "k", "l", "m",
   "n", "o", "p", "q", "r", "s", "t", "u", "v", "w", "x", "y", "z",
   "A", "B", "C", "D", "E", "F", "G", "H", "I", "J", "K", "L", "M",
   "N", "O", "P", "Q", "R", "S", "T", "U", "V", "W", "X", "Y", "Z"}

DigitVal ==
  ("0" :> 0) @@ ("1" :> 1) @@ ("2" :> 2) @@ ("3" :> 3) @@ ("4" :> 4) @@
  ("5" :> 5) @@ ("6" :> 6) @@ ("7" :> 7) @@ ("8" :> 8) @@ ("9" :> 9)

DigitChar == <<"0", "1", "2", "3", "4", "5", "6", "7", "8", "9">>

RECURSIVE ParseNat(_)
\* the number written by a sequence of digits
ParseNat(s) ==
  IF s = <<>> THEN 0
  ELSE 10 * ParseNat(SubSeq(s, 1, Len(s) - 1)) + DigitVal[s[Len(s)]]

RECURSIVE FormatNat(_)
\* the decimal digits of a number
FormatNat(n) ==
  IF n < 10 THEN <<DigitChar[n + 1]>>
  ELSE FormatNat(n \div 10) \o <<DigitChar[(n % 10) + 1]>>

\* first position of character c in s, 0 when there is none
IndexOf(s, c) ==
  IF \E i \in 1..Len(s) : s[i] = c
  THEN CHOOSE i \in 1..Len(s) : s[i] = c /\ \A j \in 1..(i - 1) : s[j] # c
  ELSE 0

\* last position of character c in s, 0 when there is none
LastIndexOf(s, c) ==
  IF \E i \in 1..Len(s) : s[i] = c
  THEN CHOOSE i \in 1..Len(s) : s[i] = c /\ \A j \in (i + 1)..Len(s) : s[j] # c
  ELSE 0

RECURSIVE Split(_, _)
\* String.prototype.split on a one-character separator
Split(s, c) ==
  LET i == IndexOf(s, c)
  IN  IF i = 0 THEN <<s>>
      ELSE <<SubSeq(s, 1, i - 1)>> \o Split(SubSeq(s, i + 1, Len(s)), c)

RECURSIVE Join(_, _)
\* Array.prototype.join with a one-character separator
Join(parts, c) ==
  IF parts = <<>> THEN <<>>
  ELSE IF Len(parts) = 1 THEN parts[1]
  ELSE parts[1] \o <<c>> \o Join(Tail(parts), c)

\* String.prototype.startsWith
StartsWith(s, p) == Len(s) >= Len(p) /\ SubSeq(s, 1, Len(p)) = p

\* String.prototype.endsWith
EndsWith(s, p) == Len(s) >= Len(p) /\ SubSeq(s, Len(s) - Len(p) + 1, Len(s)) = p

\* String.prototype.includes
Includes(s, p) ==
  \E i \in 1..(Len(s) - Len(p) + 1) : SubSeq(s, i, i + Len(p) - 1) = p

RECURSIVE Trim(_)
\* String.prototype.trim, for the blank character
Trim(s) ==
  IF s = <<>> THEN s
  ELSE IF s[1] = " " THEN Trim(Tail(s))
  ELSE IF s[Len(s)] = " " THEN Trim(SubSeq(s, 1, Len(s) - 1))
  ELSE s

\* Array.prototype.includes on a sequence
SeqIncludes(seq, x) == \E i \in 1..Len(seq) : seq[i] = x

(***************************************************************************)
(* The semver library: the grammar of a version, semver.valid,             *)
(* semver.prerelease and semver.inc.                                       *)
(***************************************************************************)
\* 0|[1-9]\d*
IsNumericId(s) ==
  /\ s # <<>>
  /\ \A i \in 1..Len(s) : s[i] \in Digits
  /\ Len(s) = 1 \/ s[1] # "0"

\* [0-9a-zA-Z-]+
IsBuildId(s) ==
  /\ s # <<>>
  /\ \A i \in 1..Len(s) : s[i] \in Digits \cup Letters \cup {"-"}

\* 0|[1-9]\d*|\d*[a-zA-Z-][a-zA-Z0-9-]*
IsPrereleaseId(s) ==
  \/ IsNumericId(s)
  \/ IsBuildId(s) /\ \E i \in 1..Len(s) : s[i] \notin Digits

\* a prerelease identifier as the library keeps it: a number when it is
\* written with digits only, the text otherwise
PreId(s) ==
  IF IsNumericId(s) THEN [num |-> TRUE, n |-> ParseNat(s), s |-> <<>>]
  ELSE [num |-> FALSE, n |-> 0, s |-> s]

\* the text of a prerelease identifier
PreIdText(id) == IF id.num THEN FormatNat(id.n) ELSE id.s

NotAVersion ==
  [ok |-> FALSE, major |-> 0, minor |-> 0, patch |-> 0, prerelease |-> <<>>]

\* new SemVer(version): the parts of a version, or ok = FALSE when the text
\* does not match the grammar  v?M.m.p(-pre(.pre)*)?(+build(.build)*)?
SemVer(version) ==
  LET t     == Trim(version)
      u     == IF t # <<>> /\ t[1] = "v" THEN Tail(t) ELSE t
      plus  == IndexOf(u, "+")
      nob   == IF plus = 0 THEN u ELSE SubSeq(u, 1, plus - 1)
      build == IF plus = 0 THEN <<>> ELSE SubSeq(u, plus + 1, Len(u))
      dash  == IndexOf(nob, "-")
      main  == IF dash = 0 THEN nob ELSE SubSeq(nob, 1, dash - 1)
      pre   == IF dash = 0 THEN <<>> ELSE SubSeq(nob, dash + 1, Len(nob))
      nums  == Split(main, ".")
      pres  == Split(pre, ".")
      blds  == Split(build, ".")
  IN  IF /\ Len(nums) = 3
         /\ \A i \in 1..3 : IsNumericId(nums[i])
         /\ dash # 0 => \A i \in 1..Len(pres) : IsPrereleaseId(pres[i])
         /\ plus # 0 => \A i \in 1..Len(blds) : IsBuildId(blds[i])
      THEN [ok |-> TRUE,
            major |-> ParseNat(nums[1]),
            minor |-> ParseNat(nums[2]),
            patch |-> ParseNat(nums[3]),
            prerelease |-> IF dash = 0 THEN <<>>
                           ELSE [i \in 1..Len(pres) |-> PreId(pres[i])]]
      ELSE NotAVersion

\* SemVer.prototype.format: M.m.p and the prerelease, without the build
Format(v) ==
  FormatNat(v.major) \o <<".">> \o FormatNat(v.minor) \o <<".">> \o
  FormatNat(v.patch) \o
  (IF v.prerelease = <<>> THEN <<>>
   ELSE <<"-">> \o
        Join([i \in 1..Len(v.prerelease) |-> PreIdText(v.prerelease[i])], "."))

\* semver.valid(version): truthy exactly when the text parses
Valid(version) == SemVer(version).ok

\* semver.prerelease(version): the prerelease identifiers, null when the
\* version is invalid or has none
Prerelease(version) ==
  LET v == SemVer(version)
  IN  IF v.ok /\ v.prerelease # <<>>
      THEN [some |-> TRUE, ids |-> v.prerelease]
      ELSE [some |-> FALSE, ids |-> <<>>]

NumId(n) == [num |-> TRUE, n |-> n, s |-> <<>>]

NoIdentifier == [some |-> FALSE, id |-> NumId(0)]

\* position of the rightmost numeric prerelease identifier, 0 when none
LastNumeric(p) ==
  IF \E i \in 1..Len(p) : p[i].num
  THEN CHOOSE i \in 1..Len(p) : p[i].num /\ \A j \in (i + 1)..Len(p) : ~p[j].num
  ELSE 0

\* SemVer.prototype.inc('pre', identifier)
IncPre(p, identifier) ==
  LET i      == LastNumeric(p)
      bumped == IF p = <<>> THEN <<NumId(0)>>
                ELSE IF i = 0 THEN Append(p, NumId(0))
                ELSE [p EXCEPT ![i].n = @ + 1]
  IN  IF ~identifier.some THEN bumped
      ELSE IF bumped[1] = identifier.id
      THEN (IF Len(bumped) >= 2 /\ bumped[2].num THEN bumped
            ELSE <<identifier.id, NumId(0)>>)
      ELSE <<identifier.id, NumId(0)>>

IncrementKinds ==
  {"patch", "minor", "major", "prepatch", "preminor", "premajor", "prerelease"}

\* SemVer.prototype.inc(release, identifier)
SemVerInc(v, release, identifier) ==
  CASE release = "premajor" ->
         [v EXCEPT !.major = @ + 1, !.minor = 0, !.patch = 0,
                   !.prerelease = IncPre(<<>>, identifier)]
    [] release = "preminor" ->
         [v EXCEPT !.minor = @ + 1, !.patch = 0,
                   !.prerelease = IncPre(<<>>, identifier)]
    [] release = "prepatch" ->
         [v EXCEPT !.patch = @ + 1, !.prerelease = IncPre(<<>>, identifier)]
    [] release = "prerelease" ->
         IF v.prerelease = <<>>
         THEN [v EXCEPT !.patch = @ + 1, !.prerelease = IncPre(<<>>, identifier)]
         ELSE [v EXCEPT !.prerelease = IncPre(@, identifier)]
    [] release = "major" ->
         [v EXCEPT !.major = IF v.minor # 0 \/ v.patch # 0 \/ v.prerelease = <<>>
                             THEN @ + 1 ELSE @,
                   !.minor = 0, !.patch = 0, !.prerelease = <<>>]
    [] release = "minor" ->
         [v EXCEPT !.minor = IF v.patch # 0 \/ v.prerelease = <<>>
                             THEN @ + 1 ELSE @,
                   !.patch = 0, !.prerelease = <<>>]
    [] release = "patch" ->
         [v EXCEPT !.patch = IF v.prerelease = <<>> THEN @ + 1 ELSE @,
                   !.prerelease = <<>>]

NullText == <<"n", "u", "l", "l">>

\* semver.inc(version, release, identifier) as it is printed in a template
\* string: the new version, or the word null when the version is invalid
SemverIncText(version, release, identifier) ==
  LET v == SemVer(version)
  IN  IF v.ok THEN Format(SemVerInc(v, release, identifier)) ELSE NullText

(***************************************************************************)
(* Texts of the model.                                                     *)
(***************************************************************************)
sVue    == <<"v", "u", "e">>
sA      == <<"a">>
sB      == <<"b">>
sAtVue  == <<"@", "v", "u", "e">>
sScope  == <<"@", "v", "u", "e", "/">>
sDotTs  == <<".", "t", "s">>
sDot    == <<".">>
sHidden == <<".", "g">>
sTypes  == <<"x", ".", "t", "s">>
sLodash == <<"l", "o", "d", "a", "s", "h">>
sVuex   == <<"@", "v", "u", "e", "x">>
sCustom == <<"custom">>
sBeta   == <<"b", "e", "t", "a">>

v101     == <<"1", ".", "0", ".", "1">>
v100     == <<"1", ".", "0", ".", "0">>
v100b1   == <<"1", ".", "0", ".", "0", "-", "b", "e", "t", "a", ".", "1">>
v200b0   == <<"2", ".", "0", ".", "0", "-", "b", "e", "t", "a", ".", "0">>
vPrefix  == <<"v", "1", ".", "0", ".", "1">>
vTwo     == <<"1", ".", "2">>
vAbc     == <<"a", "b", "c">>
vLeading == <<"0", "1", ".", "0", ".", "0">>
vEmpty   == <<>>

\* the version range an entry of a dependency map holds before the release
OldRange == <<"^0.1.0">>

\* texts given as the positional argument or typed at the custom prompt
VersionInputs == {v101, v100b1, vPrefix, vTwo, vAbc, vLeading}

\* values of the version field of the root manifest when the script starts
CurrentVersions == {v100, v200b0, vTwo}

\* values of --preid and of --tag
PreidInputs == {sBeta}
TagInputs == {<<"edge">>}

\* the entries of packages/ that can be release packages, in listing order
DirUniverse == <<sA, sB, sVue>>

\* entries of packages/ that the listing always holds besides the packages
OtherEntries == <<sHidden, sTypes>>

\* keys that a dependency map holds
DepKeys ==
  {sVue, sScope \o sA, sScope \o sB, sScope \o <<"z">>, sA, sLodash, sVuex}

Undefined == [defined |-> FALSE, value |-> <<>>]
Some(x) == [defined |-> TRUE, value |-> x]

(***************************************************************************)
(* State.                                                                  *)
(***************************************************************************)
VARIABLES
  args,           \* minimist result: positional (args._[0]), preid, dry, skipTests,
                  \* skipBuild, tag
  listing,        \* fs.readdirSync of packages/
  currentVersion, \* version of ./package.json when the script was loaded
  files,          \* the manifest files, by directory
  writes,         \* the directories whose manifest fs.writeFileSync has written
  pc,             \* position in main
  targetVersion,  \* local of main
  yes,            \* local of main: the answer to the confirm prompt
  i,              \* position of the publish loop in packages
  execaCalls,     \* commands given to execa, with their results
  dryRunLog,      \* commands printed by dryRun
  err,            \* the error main was rejected with
  consoleError    \* what main().catch printed

vars ==
  <<args, listing, currentVersion, files, writes, pc, targetVersion, yes, i,
    execaCalls, dryRunLog, err, consoleError>>

config == <<args, listing, currentVersion>>

\* const isDryRun = args.dry
isDryRun == args.dry

\* const skipTests = args.skipTests
skipTests == args.skipTests

\* const skipBuild = args.skipBuild
skipBuild == args.skipBuild

RECURSIVE Filter(_)
\* .filter(p => !p.endsWith('.ts') && !p.startsWith('.'))
Filter(entries) ==
  IF entries = <<>> THEN <<>>
  ELSE (IF ~EndsWith(entries[1], sDotTs) /\ ~StartsWith(entries[1], sDot)
        THEN <<entries[1]>> ELSE <<>>) \o Filter(Tail(entries))

\* packages in the reverse of the order of the listing
packagesReversed ==
  LET found == Filter(listing)
  IN  [k \in 1..Len(found) |-> found[Len(found) + 1 - k]]

\* const packages
packages == Filter(listing)

\* const skippedPackages = []
skippedPackages == <<>>

\* preId that is taken from the current version whatever --preid says
preIdOfCurrentVersion ==
  LET pr == Prerelease(currentVersion)
  IN  IF pr.some /\ ~(pr.ids[1].num /\ pr.ids[1].n = 0)
      THEN [some |-> TRUE, id |-> pr.ids[1]]
      ELSE NoIdentifier

\* const preId: --preid, else the leading prerelease identifier of the
\* current version when that is truthy
preId ==
  IF args.preid.defined /\ args.preid.value # <<>>
  THEN [some |-> TRUE, id |-> [num |-> FALSE, n |-> 0, s |-> args.preid.value]]
  ELSE LET pr == Prerelease(currentVersion)
       IN  IF pr.some /\ ~(pr.ids[1].num /\ pr.ids[1].n = 0)
           THEN [some |-> TRUE, id |-> pr.ids[1]]
           ELSE NoIdentifier

\* const versionIncrements
versionIncrements ==
  <<"patch", "minor", "major">> \o
  (IF preId.some THEN <<"prepatch", "preminor", "premajor", "prerelease">>
   ELSE <<>>)

\* const inc = i => semver.inc(currentVersion, i, preId)
inc(kind) == SemverIncText(currentVersion, kind, preId)

\* const getPkgRoot
getPkgRoot(pkg) == <<"packages/">> \o pkg

\* path.resolve(__dirname, '.')
RootDir == <<".">>

\* the choices of the select prompt
Choices ==
  {<<versionIncrements[k]>> \o <<" ", "(">> \o inc(versionIncrements[k]) \o <<")">> :
     k \in 1..Len(versionIncrements)} \cup {sCustom}

\* release.match(/\((.*)\)/)[1]
MatchParens(release) ==
  SubSeq(release, IndexOf(release, "(") + 1, LastIndexOf(release, ")") - 1)

(***************************************************************************)
(* Manifests and the initial state.                                        *)
(***************************************************************************)
FullMap == [k \in DepKeys |-> OldRange]

\* a manifest file: io tells whether reading and writing the file works,
\* the other fields are the document it holds
Manifest(io, version, private, dependencies, peerDependencies) ==
  [io |-> io, version |-> version, private |-> private,
   dependencies |-> dependencies, peerDependencies |-> peerDependencies]

\* a manifest holds its dependency map under dependencies or under
\* peerDependencies; all manifests of a repository use the same one
DepShapes == {<<Some(FullMap), Undefined>>, <<Undefined, Some(FullMap)>>}

PackageManifests(version, shape) ==
  {Manifest("fails", version, FALSE, shape[1], shape[2])} \cup
  {Manifest("ok", version, private, shape[1], shape[2]) : private \in BOOLEAN}

RootManifests(version, shape) ==
  {Manifest(io, version, TRUE, shape[1], shape[2]) : io \in {"ok", "fails"}}

PlainManifest(version) == Manifest("ok", version, FALSE, Some(FullMap), Undefined)

\* the listing of packages/ that holds the chosen directories
Listing(chosen) ==
  <<OtherEntries[1]>> \o SelectSeq(DirUniverse, LAMBDA d : d \in chosen) \o
  <<OtherEntries[2]>>

Dirs(chosen) == {RootDir} \cup {getPkgRoot(d) : d \in chosen}

NoError == [kind |-> "none", call |-> 0]

\* the arguments are the plain ones: a valid positional version, no --preid
\* and no --tag, with a valid current version
PlainArgs(a, cv) ==
  a.positional = Some(v101) /\ ~a.preid.defined /\ ~a.tag.defined /\ cv = v100

\* the repository is the plain one: two public packages with readable files
PlainRepo(chosen, f, cv) ==
  /\ chosen = {sA, sVue}
  /\ f = [d \in Dirs(chosen) |->
            IF d = RootDir THEN Manifest("ok", cv, TRUE, Some(FullMap), Undefined)
            ELSE PlainManifest(cv)]

ArgsSpace ==
  [positional : {Undefined} \cup {Some(v) : v \in VersionInputs},
   preid : {Undefined} \cup {Some(p) : p \in PreidInputs},
   dry : BOOLEAN, skipTests : BOOLEAN, skipBuild : BOOLEAN,
   tag : {Undefined} \cup {Some(t) : t \in TagInputs}]

FilesSpace(chosen, cv) ==
  UNION {
    {f \in [Dirs(chosen) -> RootManifests(cv, shape) \cup PackageManifests(cv, shape)] :
       /\ f[RootDir] \in RootManifests(cv, shape)
       /\ \A d \in chosen : f[getPkgRoot(d)] \in PackageManifests(cv, shape)} :
    shape \in DepShapes}

Init ==
  /\ args \in ArgsSpace
  /\ currentVersion \in CurrentVersions
  /\ \E chosen \in SUBSET {DirUniverse[k] : k \in 1..Len(DirUniverse)} :
       /\ Cardinality(chosen) <= MaxPackages
       /\ listing = Listing(chosen)
       /\ files \in FilesSpace(chosen, currentVersion)
       /\ PlainArgs(args, currentVersion) \/ PlainRepo(chosen, files, currentVersion)
  /\ pc = "start"
  /\ targetVersion = Undefined
  /\ yes = "unset"
  /\ writes = <<>>
  /\ i = 1
  /\ execaCalls = <<>>
  /\ dryRunLog = <<>>
  /\ err = NoError
  /\ consoleError = NoError

(***************************************************************************)
(* The command executors.                                                  *)
(***************************************************************************)
NoOpts == [cwd |-> Undefined, stdio |-> Undefined]
PipeOpts == [cwd |-> Undefined, stdio |-> Some(<<"pipe">>)]

\* results of a command: success with its output, or a failure with the
\* stderr text the error carries (none when the error has no stderr)
Ok == [failed |-> FALSE, stdout |-> <<>>, stderr |-> Some(<<>>)]
OkWith(stdout) == [failed |-> FALSE, stdout |-> stdout, stderr |-> Some(<<>>)]
FailedWith(stderr) == [failed |-> TRUE, stdout |-> <<>>, stderr |-> stderr]
Failed == FailedWith(Some(<<>>))

sPreviously == <<"previously published">>
AlreadyPublished ==
  FailedWith(Some(<<"error: You cannot publish over the ", "previously published",
                    " versions">>))
Forbidden == FailedWith(Some(<<"error: ", "403 Forbidden">>))
NoStderr == FailedWith(Undefined)

CommandResults == {Ok, Failed}
DiffResults == {OkWith(<<>>), OkWith(<<"diff --git">>), Failed}
PublishResults == {Ok, AlreadyPublished, Forbidden, Failed, NoStderr}

Call(bin, a, opts, res) == [bin |-> bin, args |-> a, opts |-> opts, result |-> res]

Throw(e) == pc' = "rejected" /\ err' = e

Goto(p) == pc' = p /\ UNCHANGED err

\* the error execa rejects with for the call just made
CommandFailed == [kind |-> "command failed", call |-> Len(execaCalls) + 1]

\* const run = (bin, args, opts) => execa(bin, args, { stdio: 'inherit', ...opts })
run(bin, a, opts, res) ==
  /\ execaCalls' = Append(execaCalls, Call(bin, a, opts, res))
  /\ UNCHANGED dryRunLog

\* dryRun that prints the command without its options
dryRunWithoutOpts(bin, a, opts) ==
  /\ dryRunLog' = Append(dryRunLog, [bin |-> bin, args |-> a, opts |-> NoOpts])
  /\ UNCHANGED execaCalls

\* const dryRun = (bin, args, opts) => console.log(`[dryrun] ...`, opts)
dryRun(bin, a, opts) ==
  /\ dryRunLog' = Append(dryRunLog, [bin |-> bin, args |-> a, opts |-> opts])
  /\ UNCHANGED execaCalls

\* runIfNotDry that is run in both modes
runAlways(bin, a, opts, res) == run(bin, a, opts, res)

\* const runIfNotDry = isDryRun ? dryRun : run
runIfNotDry(bin, a, opts, res) ==
  IF isDryRun THEN dryRun(bin, a, opts) ELSE run(bin, a, opts, res)

\* a command given to runIfNotDry fails only when it is executed
Outcome(res) == isDryRun => res = Ok

(***************************************************************************)
(* The version propagator.                                                 *)
(***************************************************************************)
\* dep.replace(/^@vue\//, '')
StripScope(dep) ==
  IF StartsWith(dep, sScope) THEN SubSeq(dep, Len(sScope) + 1, Len(dep)) ELSE dep

\* the condition of updateDeps without its second disjunct
IsVueOnly(dep) == dep = sVue

\* the condition of updateDeps on a key
IsInternalDep(dep) ==
  \/ dep = sVue
  \/ StartsWith(dep, sAtVue) /\ SeqIncludes(packages, StripScope(dep))

\* function updateDeps(pkg, depType, version), on the map pkg[depType]
updateDeps(deps, version) ==
  IF ~deps.defined THEN deps
  ELSE Some([dep \in DOMAIN deps.value |->
               IF IsInternalDep(dep) THEN version ELSE deps.value[dep]])

\* function updatePackage(pkgRoot, version), on the document of the file
updatePackage(m, version) ==
  [m EXCEPT !.version = version,
            !.dependencies = updateDeps(@, version),
            !.peerDependencies = updateDeps(@, version)]

\* the manifests in the order updateVersions visits them
UpdateOrder == <<RootDir>> \o [k \in 1..Len(packages) |-> getPkgRoot(packages[k])]

\* the first manifest in that order whose read or write throws, 0 when none
FirstFailure ==
  IF \E k \in 1..Len(UpdateOrder) : files[UpdateOrder[k]].io = "fails"
  THEN CHOOSE k \in 1..Len(UpdateOrder) :
         /\ files[UpdateOrder[k]].io = "fails"
         /\ \A j \in 1..(k - 1) : files[UpdateOrder[j]].io # "fails"
  ELSE 0

\* the files updateVersions has rewritten when it ends
Rewritten ==
  {UpdateOrder[k] : k \in {j \in 1..Len(UpdateOrder) : FirstFailure = 0 \/ j < FirstFailure}}

\* function updateVersions(version)
updateVersions(version) ==
  /\ files' = [d \in DOMAIN files |->
                 IF d \in Rewritten THEN updatePackage(files[d], version) ELSE files[d]]
  /\ writes' = writes \o SubSeq(UpdateOrder, 1, Cardinality(Rewritten))

(***************************************************************************)
(* The publisher.                                                          *)
(***************************************************************************)
sAlpha == <<"a", "l", "p", "h", "a">>
sRc    == <<"r", "c">>

\* ReleaseTag that looks at the version before it looks at --tag
ReleaseTagInferredFirst(pkgName, version) ==
  IF Includes(version, sAlpha) THEN Some(sAlpha)
  ELSE IF Includes(version, sBeta) THEN Some(sBeta)
  ELSE IF Includes(version, sRc) THEN Some(sRc)
  ELSE IF args.tag.defined /\ args.tag.value # <<>> THEN Some(args.tag.value)
  ELSE IF pkgName = sVue THEN Some(<<"next">>)
  ELSE Undefined

\* ReleaseTag that compares the leading prerelease identifier with the words
ReleaseTagLeadingIdentifier(pkgName, version) ==
  LET pre  == Prerelease(version)
      lead == IF pre.some THEN PreIdText(pre.ids[1]) ELSE <<>>
  IN  IF args.tag.defined /\ args.tag.value # <<>> THEN Some(args.tag.value)
      ELSE IF lead \in {sAlpha, sBeta, sRc} THEN Some(lead)
      ELSE IF pkgName = sVue THEN Some(<<"next">>)
      ELSE Undefined

\* let releaseTag in publishPackage
ReleaseTag(pkgName, version) ==
  IF args.tag.defined /\ args.tag.value # <<>> THEN Some(args.tag.value)
  ELSE IF Includes(version, sAlpha) THEN Some(sAlpha)
  ELSE IF Includes(version, sBeta) THEN Some(sBeta)
  ELSE IF Includes(version, sRc) THEN Some(sRc)
  ELSE IF pkgName = sVue THEN Some(<<"next">>)
  ELSE Undefined

\* the arguments of yarn publish
PublishArgs(pkgName, version) ==
  LET releaseTag == ReleaseTag(pkgName, version)
  IN  << <<"publish">>, <<"--new-version">>, version >> \o
      (IF releaseTag.defined THEN << <<"--tag">>, releaseTag.value >> ELSE <<>>) \o
      << <<"--access">>, <<"public">> >>

\* e.stderr.match(/previously published/); undefined stderr makes it throw
MatchesPreviouslyPublished(res) == Includes(res.stderr.value, sPreviously)

\* where main goes after the package at position i of the loop
AfterPackage ==
  /\ i' = i + 1
  /\ Goto(IF i = Len(packages) THEN "tag" ELSE "publish")

(***************************************************************************)
(* The steps of main.                                                      *)
(***************************************************************************)
\* let targetVersion = args._[0]; if (!targetVersion) ...
Start ==
  /\ pc = "start"
  /\ IF args.positional.defined /\ args.positional.value # <<>>
     THEN targetVersion' = args.positional /\ Goto("validate")
     ELSE UNCHANGED targetVersion /\ Goto("select")
  /\ UNCHANGED <<config, files, writes, yes, i, execaCalls, dryRunLog, consoleError>>

\* the select prompt and the branch on its answer
SelectRelease ==
  /\ pc = "select"
  /\ \E release \in Choices :
       IF release = sCustom
       THEN UNCHANGED targetVersion /\ Goto("custom")
       ELSE targetVersion' = Some(MatchParens(release)) /\ Goto("validate")
  /\ UNCHANGED <<config, files, writes, yes, i, execaCalls, dryRunLog, consoleError>>

\* the input prompt for a custom version
InputCustom ==
  /\ pc = "custom"
  /\ \E version \in VersionInputs \cup {vEmpty} : targetVersion' = Some(version)
  /\ Goto("validate")
  /\ UNCHANGED <<config, files, writes, yes, i, execaCalls, dryRunLog, consoleError>>

\* Validate without the throw: an invalid version goes on to the prompt
ValidateLoose ==
  /\ pc = "validate"
  /\ Goto("confirm")
  /\ UNCHANGED <<config, files, writes, targetVersion, yes, i, execaCalls, dryRunLog, consoleError>>

\* if (!semver.valid(targetVersion)) throw new Error(...)
Validate ==
  /\ pc = "validate"
  /\ IF ~Valid(targetVersion.value)
     THEN Throw([kind |-> "invalid target version", call |-> 0])
     ELSE Goto("confirm")
  /\ UNCHANGED <<config, files, writes, targetVersion, yes, i, execaCalls, dryRunLog, consoleError>>

\* Confirm without the return: the answer is read and the run goes on
ConfirmIgnored ==
  /\ pc = "confirm"
  /\ \E answer \in {"yes", "no"} : yes' = answer /\ Goto("test")
  /\ UNCHANGED <<config, files, writes, targetVersion, i, execaCalls, dryRunLog, consoleError>>

\* the confirm prompt; if (!yes) return
Confirm ==
  /\ pc = "confirm"
  /\ \E answer \in {"yes", "no"} :
       /\ yes' = answer
       /\ Goto(IF answer = "no" THEN "returned" ELSE "test")
  /\ UNCHANGED <<config, files, writes, targetVersion, i, execaCalls, dryRunLog, consoleError>>

\* step 'Running tests...': both branches only print
RunTests ==
  /\ pc = "test"
  /\ Goto("update")
  /\ UNCHANGED <<config, files, writes, targetVersion, yes, i, execaCalls, dryRunLog, consoleError>>

\* step 'Updating cross dependencies...': updateVersions(targetVersion)
UpdateVersions ==
  /\ pc = "update"
  /\ updateVersions(targetVersion.value)
  /\ IF FirstFailure = 0 THEN Goto("build")
     ELSE Throw([kind |-> "fs", call |-> 0])
  /\ UNCHANGED <<config, targetVersion, yes, i, execaCalls, dryRunLog, consoleError>>

\* Build without the await: a failure of the build is not noticed
BuildLenient ==
  /\ pc = "build"
  /\ IF ~skipBuild /\ ~isDryRun
     THEN \E res \in CommandResults :
            /\ run(<<"yarn">>, << <<"build">>, <<"--release">> >>, NoOpts, res)
            /\ Goto("diff")
     ELSE Goto("diff") /\ UNCHANGED <<execaCalls, dryRunLog>>
  /\ UNCHANGED <<config, files, writes, targetVersion, yes, i, consoleError>>

\* step 'Building all packages...'
Build ==
  /\ pc = "build"
  /\ IF ~skipBuild /\ ~isDryRun
     THEN \E res \in CommandResults :
            /\ run(<<"yarn">>, << <<"build">>, <<"--release">> >>, NoOpts, res)
            /\ IF res.failed THEN Throw(CommandFailed) ELSE Goto("diff")
     ELSE Goto("diff") /\ UNCHANGED <<execaCalls, dryRunLog>>
  /\ UNCHANGED <<config, files, writes, targetVersion, yes, i, consoleError>>

\* where main goes when the commit stage is over
AfterCommit == IF Len(packages) = 0 THEN "tag" ELSE "publish"

\* GitDiff without the test of stdout: add and commit follow every inspection
GitDiffAlwaysCommits ==
  /\ pc = "diff"
  /\ \E res \in DiffResults :
       /\ run(<<"git">>, << <<"diff">> >>, PipeOpts, res)
       /\ IF res.failed THEN Throw(CommandFailed) ELSE Goto("add")
  /\ UNCHANGED <<config, files, writes, targetVersion, yes, i, consoleError>>

\* const { stdout } = await run('git', ['diff'], { stdio: 'pipe' }); if (stdout)
GitDiff ==
  /\ pc = "diff"
  /\ \E res \in DiffResults :
       /\ run(<<"git">>, << <<"diff">> >>, PipeOpts, res)
       /\ IF res.failed THEN Throw(CommandFailed)
          ELSE IF res.stdout # <<>> THEN Goto("add")
          ELSE Goto(AfterCommit)
  /\ UNCHANGED <<config, files, writes, targetVersion, yes, i, consoleError>>

\* await runIfNotDry('git', ['add', '-A'])
GitAdd ==
  /\ pc = "add"
  /\ \E res \in CommandResults :
       /\ Outcome(res)
       /\ runIfNotDry(<<"git">>, << <<"add">>, <<"-A">> >>, NoOpts, res)
       /\ IF res.failed THEN Throw(CommandFailed) ELSE Goto("commit")
  /\ UNCHANGED <<config, files, writes, targetVersion, yes, i, consoleError>>

\* await runIfNotDry('git', ['commit', '-m', `release: v${targetVersion}`])
GitCommit ==
  /\ pc = "commit"
  /\ \E res \in CommandResults :
       /\ Outcome(res)
       /\ runIfNotDry(<<"git">>,
                      << <<"commit">>, <<"-m">>, <<"release: v">> \o targetVersion.value >>,
                      NoOpts, res)
       /\ IF res.failed THEN Throw(CommandFailed) ELSE Goto(AfterCommit)
  /\ UNCHANGED <<config, files, writes, targetVersion, yes, i, consoleError>>

\* PublishCall without the catch: every failure of yarn publish is thrown
PublishCallStrict(pkgName, version) ==
  \E res \in PublishResults :
    /\ Outcome(res)
    /\ runIfNotDry(<<"yarn">>, PublishArgs(pkgName, version),
                   [cwd |-> Some(getPkgRoot(pkgName)), stdio |-> Some(<<"pipe">>)], res)
    /\ IF ~res.failed THEN AfterPackage
       ELSE Throw(CommandFailed) /\ UNCHANGED i

\* PublishCall with a catch that rethrows nothing
PublishCallLenient(pkgName, version) ==
  \E res \in PublishResults :
    /\ Outcome(res)
    /\ runIfNotDry(<<"yarn">>, PublishArgs(pkgName, version),
                   [cwd |-> Some(getPkgRoot(pkgName)), stdio |-> Some(<<"pipe">>)], res)
    /\ AfterPackage

\* the try and catch around yarn publish in publishPackage
PublishCall(pkgName, version) ==
  \E res \in PublishResults :
    /\ Outcome(res)
    /\ runIfNotDry(<<"yarn">>, PublishArgs(pkgName, version),
                   [cwd |-> Some(getPkgRoot(pkgName)), stdio |-> Some(<<"pipe">>)], res)
    /\ IF ~res.failed THEN AfterPackage
       ELSE IF ~res.stderr.defined
       THEN Throw([kind |-> "TypeError", call |-> 0]) /\ UNCHANGED i
       ELSE IF MatchesPreviouslyPublished(res) THEN AfterPackage
       ELSE Throw(CommandFailed) /\ UNCHANGED i

\* PublishPackage without the test of pkg.private
PublishPackageIgnoresPrivate ==
  /\ pc = "publish"
  /\ LET pkgName == packages[i]
         pkg     == files[getPkgRoot(pkgName)]
     IN  IF SeqIncludes(skippedPackages, pkgName)
         THEN AfterPackage /\ UNCHANGED <<execaCalls, dryRunLog>>
         ELSE IF pkg.io = "fails"
         THEN Throw([kind |-> "fs", call |-> 0]) /\ UNCHANGED <<i, execaCalls, dryRunLog>>
         ELSE PublishCall(pkgName, targetVersion.value)
  /\ UNCHANGED <<config, files, writes, targetVersion, yes, consoleError>>

\* one turn of for (const pkg of packages) await publishPackage(pkg, ...)
PublishPackage ==
  /\ pc = "publish"
  /\ LET pkgName == packages[i]
         pkg     == files[getPkgRoot(pkgName)]
     IN  IF SeqIncludes(skippedPackages, pkgName)
         THEN AfterPackage /\ UNCHANGED <<execaCalls, dryRunLog>>
         ELSE IF pkg.io = "fails"
         THEN Throw([kind |-> "fs", call |-> 0]) /\ UNCHANGED <<i, execaCalls, dryRunLog>>
         ELSE IF pkg.private
         THEN AfterPackage /\ UNCHANGED <<execaCalls, dryRunLog>>
         ELSE PublishCall(pkgName, targetVersion.value)
  /\ UNCHANGED <<config, files, writes, targetVersion, yes, consoleError>>

\* GitTag that goes on to the pushes when git tag fails
GitTagLenient ==
  /\ pc = "tag"
  /\ \E res \in CommandResults :
       /\ Outcome(res)
       /\ runIfNotDry(<<"git">>, << <<"tag">>, <<"v">> \o targetVersion.value >>,
                      NoOpts, res)
       /\ Goto("pushTag")
  /\ UNCHANGED <<config, files, writes, targetVersion, yes, i, consoleError>>

\* await runIfNotDry('git', ['tag', `v${targetVersion}`])
GitTag ==
  /\ pc = "tag"
  /\ \E res \in CommandResults :
       /\ Outcome(res)
       /\ runIfNotDry(<<"git">>, << <<"tag">>, <<"v">> \o targetVersion.value >>,
                      NoOpts, res)
       /\ IF res.failed THEN Throw(CommandFailed) ELSE Goto("pushTag")
  /\ UNCHANGED <<config, files, writes, targetVersion, yes, i, consoleError>>

\* await runIfNotDry('git', ['push', 'origin', `refs/tags/v${targetVersion}`])
GitPushTag ==
  /\ pc = "pushTag"
  /\ \E res \in CommandResults :
       /\ Outcome(res)
       /\ runIfNotDry(<<"git">>,
                      << <<"push">>, <<"origin">>, <<"refs/tags/v">> \o targetVersion.value >>,
                      NoOpts, res)
       /\ IF res.failed THEN Throw(CommandFailed) ELSE Goto("push")
  /\ UNCHANGED <<config, files, writes, targetVersion, yes, i, consoleError>>

\* await runIfNotDry('git', ['push']) and the closing messages
GitPush ==
  /\ pc = "push"
  /\ \E res \in CommandResults :
       /\ Outcome(res)
       /\ runIfNotDry(<<"git">>, << <<"push">> >>, NoOpts, res)
       /\ IF res.failed THEN Throw(CommandFailed) ELSE Goto("returned")
  /\ UNCHANGED <<config, files, writes, targetVersion, yes, i, consoleError>>

\* Catch that puts the current version back into every manifest
CatchAndRollBack ==
  /\ pc = "rejected"
  /\ pc' = "exited"
  /\ consoleError' = err
  /\ files' = [d \in DOMAIN files |-> [files[d] EXCEPT !.version = currentVersion]]
  /\ UNCHANGED <<config, writes, targetVersion, yes, i, execaCalls, dryRunLog, err>>

\* main().catch(err => { console.error(err) })
Catch ==
  /\ pc = "rejected"
  /\ pc' = "exited"
  /\ consoleError' = err
  /\ UNCHANGED <<config, files, writes, targetVersion, yes, i, execaCalls, dryRunLog, err>>

Next ==
  \/ Start
  \/ SelectRelease
  \/ InputCustom
  \/ Validate
  \/ Confirm
  \/ RunTests
  \/ UpdateVersions
  \/ Build
  \/ GitDiff
  \/ GitAdd
  \/ GitCommit
  \/ PublishPackage
  \/ GitTag
  \/ GitPushTag
  \/ GitPush
  \/ Catch

Spec == Init /\ [][Next]_vars

(***************************************************************************)
(* The release tag of publishPackage, over target versions whose text      *)
(* holds the words it looks for in several places.                         *)
(***************************************************************************)
v100a1      == <<"1", ".", "0", ".", "0", "-", "a", "l", "p", "h", "a", ".", "1">>
v100rc1     == <<"1", ".", "0", ".", "0", "-", "r", "c", ".", "1">>
v100build   == <<"1", ".", "0", ".", "0", "+", "a", "l", "p", "h", "a">>
v100rcBeta  == <<"1", ".", "0", ".", "0", "-", "r", "c", ".", "b", "e", "t", "a">>
v100joined  == <<"1", ".", "0", ".", "0", "-", "r", "c", "1">>
v100nested  == <<"1", ".", "0", ".", "0", "-", "x", ".", "a", "l", "p", "h", "a">>
v100dev     == <<"1", ".", "0", ".", "0", "-", "d", "e", "v", ".", "1">>

TagVersions ==
  {v101, v100b1, v100a1, v100rc1, v100build, v100rcBeta, v100joined, v100nested,
   v100dev}

\* the plain repository, released to one of TagVersions or to a picked version
PublishInit ==
  /\ args \in [positional : {Undefined} \cup {Some(v) : v \in TagVersions},
               preid : {Undefined},
               dry : BOOLEAN, skipTests : {FALSE}, skipBuild : BOOLEAN,
               tag : {Undefined} \cup {Some(t) : t \in TagInputs}]
  /\ currentVersion = v100
  /\ listing = Listing({sA, sVue})
  /\ PlainRepo({sA, sVue}, files, currentVersion)
  /\ pc = "start"
  /\ targetVersion = Undefined
  /\ yes = "unset"
  /\ writes = <<>>
  /\ i = 1
  /\ execaCalls = <<>>
  /\ dryRunLog = <<>>
  /\ err = NoError
  /\ consoleError = NoError

PublishSpec == PublishInit /\ [][Next]_vars

(***************************************************************************)
(* The increments offered by the select prompt, over current versions with *)
(* several shapes of prerelease and over two values of --preid.            *)
(***************************************************************************)
v123       == <<"1", ".", "2", ".", "3">>
v100zero   == <<"1", ".", "0", ".", "0", "-", "0">>
v100one    == <<"1", ".", "0", ".", "0", "-", "1">>
v100rc     == <<"1", ".", "0", ".", "0", "-", "r", "c">>
v100bx1    == <<"1", ".", "0", ".", "0", "-", "b", "e", "t", "a", ".", "x", ".", "1">>

IncVersions == {v100, v123, v200b0, v100b1, v100zero, v100one, v100rc, v100bx1, vTwo}

IncPreids == {sBeta, sAlpha}

\* the plain repository, with no positional version: the operator picks an
\* increment of one of IncVersions or types a version
ResolveInit ==
  /\ args \in [positional : {Undefined},
               preid : {Undefined} \cup {Some(p) : p \in IncPreids},
               dry : BOOLEAN, skipTests : {FALSE}, skipBuild : {TRUE},
               tag : {Undefined}]
  /\ currentVersion \in IncVersions
  /\ listing = Listing({sA, sVue})
  /\ PlainRepo({sA, sVue}, files, currentVersion)
  /\ pc = "start"
  /\ targetVersion = Undefined
  /\ yes = "unset"
  /\ writes = <<>>
  /\ i = 1
  /\ execaCalls = <<>>
  /\ dryRunLog = <<>>
  /\ err = NoError
  /\ consoleError = NoError

ResolveSpec == ResolveInit /\ [][Next]_vars

(***************************************************************************)
(* Vocabulary of the properties.                                           *)
(***************************************************************************)
\* the call is the command bin with the first argument sub
IsCommand(c, bin, sub) == c.bin = <<bin>> /\ c.args[1] = <<sub>>

IsTagCall(c) ==
  IsCommand(c, "git", "tag") /\ c.args = << <<"tag">>, <<"v">> \o targetVersion.value >>

IsPushTagCall(c) ==
  /\ IsCommand(c, "git", "push")
  /\ c.args = << <<"push">>, <<"origin">>, <<"refs/tags/v">> \o targetVersion.value >>

IsPushCall(c) == IsCommand(c, "git", "push") /\ c.args = << <<"push">> >>

IsPublishCall(c) == IsCommand(c, "yarn", "publish")

IsPublishOf(c, pkgName) ==
  IsPublishCall(c) /\ c.opts.cwd = Some(getPkgRoot(pkgName))

\* some call of the log satisfies test
Has(log, test(_)) == \E k \in 1..Len(log) : test(log[k])

\* updateVersions has run to its end: every manifest was written, in order
Propagated == writes = UpdateOrder

\* every manifest reports the target version
AllAtTarget == \A d \in DOMAIN files : files[d].version = targetVersion.value

\* positions of main behind a completed updateVersions
AfterUpdate == {"build", "diff", "add", "commit", "publish", "tag", "pushTag", "push"}

Ended == pc \in {"rejected", "exited"}

\* C1: when the target version (positional, picked or typed) is not a valid
\* semantic version, main is rejected with the invalid-version error at the
\* validation, before the confirm prompt, and no manifest is written and no
\* command is executed or recorded.
C1_InvalidTargetAborts ==
  (targetVersion.defined /\ ~Valid(targetVersion.value)) =>
    /\ pc \in {"validate", "rejected", "exited"}
    /\ pc # "validate" => err = [kind |-> "invalid target version", call |-> 0]
    /\ yes = "unset"
    /\ writes = <<>>
    /\ execaCalls = <<>>
    /\ dryRunLog = <<>>

\* a run that picked an increment of an invalid current version has ended
C1_Witness ==
  /\ pc = "exited"
  /\ ~args.positional.defined
  /\ targetVersion = Some(NullText)
  /\ consoleError = [kind |-> "invalid target version", call |-> 0]

\* C2: when the operator answers no, main returns without an error and no
\* manifest is written and no command is executed or recorded.
C2_DeclineHasNoEffect ==
  yes = "no" =>
    /\ pc = "returned"
    /\ err = NoError
    /\ consoleError = NoError
    /\ writes = <<>>
    /\ execaCalls = <<>>
    /\ dryRunLog = <<>>

\* a live run with packages to release was declined
C2_Witness == yes = "no" /\ pc = "returned" /\ ~isDryRun /\ Len(packages) = 2

\* C3: in a dry run the only command executed is git diff; updateVersions
\* still writes the target version into every manifest; git add, git commit,
\* yarn publish, git tag and the two git push are recorded, not executed.
C3_DryRunExecutesOnlyDiff ==
  isDryRun =>
    /\ \A k \in 1..Len(execaCalls) : IsCommand(execaCalls[k], "git", "diff")
    /\ Len(execaCalls) <= 1
    /\ pc \in AfterUpdate => Propagated /\ AllAtTarget
    /\ (pc = "returned" /\ yes = "yes") =>
         /\ Propagated /\ AllAtTarget
         /\ Has(dryRunLog, IsTagCall)
         /\ Has(dryRunLog, IsPushTagCall)
         /\ Has(dryRunLog, IsPushCall)
         /\ \A k \in 1..Len(packages) :
              ~files[getPkgRoot(packages[k])].private =>
                Has(dryRunLog, LAMBDA c : IsPublishOf(c, packages[k]))
         /\ Has(execaCalls, LAMBDA c : c.result.stdout # <<>>) =>
              /\ Has(dryRunLog, LAMBDA c : IsCommand(c, "git", "add"))
              /\ Has(dryRunLog, LAMBDA c : IsCommand(c, "git", "commit"))

\* a dry run ended after recording a commit and a publish
C3_Witness ==
  /\ isDryRun /\ pc = "returned" /\ yes = "yes"
  /\ Len(execaCalls) = 1
  /\ AllAtTarget
  /\ Has(dryRunLog, LAMBDA c : IsCommand(c, "git", "commit"))
  /\ Has(dryRunLog, IsPublishCall)
  /\ ~skipBuild /\ ~skipTests

\* the key is the directory name of a release package
IsExactName(dep) == \E k \in 1..Len(packages) : dep = packages[k]

\* the key is '@vue/<name>' for the directory name of a release package
IsScopedName(dep) == \E k \in 1..Len(packages) : dep = sScope \o packages[k]

\* the two dependency maps of a manifest that are defined
DepMaps(m) == {d \in {m.dependencies, m.peerDependencies} : d.defined}

\* in the manifest of every release package, the version and the value of
\* every key of both maps that satisfies test are the target version
PackagesPointAtTarget(test(_)) ==
  \A k \in 1..Len(packages) :
    LET m == files[getPkgRoot(packages[k])]
    IN  /\ m.version = targetVersion.value
        /\ \A deps \in DepMaps(m) : \A dep \in DOMAIN deps.value :
             test(dep) => deps.value[dep] = targetVersion.value

\* C4, as claimed: after updateVersions(v) completes, every release package
\* reports v, and every key of its dependencies or peerDependencies that is
\* the exact name or the '@vue/<name>' form of a release package holds v.
C4_AsClaimed ==
  Propagated => PackagesPointAtTarget(LAMBDA dep : IsExactName(dep) \/ IsScopedName(dep))

\* C4, amended: after updateVersions(v) completes, every release package
\* reports v, and every key of its dependencies or peerDependencies that is
\* 'vue' or the '@vue/<name>' form of a release package holds v.
C4_InternalDepsAtTarget ==
  Propagated => PackagesPointAtTarget(LAMBDA dep : dep = sVue \/ IsScopedName(dep))

\* updateVersions completed for packages a and vue, which hold their
\* dependency maps under peerDependencies
C4_Witness ==
  /\ pc = "build" /\ Propagated
  /\ packages = <<sA, sVue>>
  /\ files[getPkgRoot(sA)].peerDependencies.defined
  /\ files[getPkgRoot(sA)].peerDependencies.value[sScope \o sA] = targetVersion.value
  /\ files[getPkgRoot(sVue)].peerDependencies.value[sVue] = targetVersion.value
  /\ files[getPkgRoot(sVue)].peerDependencies.value[sA] = OldRange

\* the value of key dep in the map depType of a manifest
DepValue(m, depType, dep) ==
  IF depType = "dependencies" THEN m.dependencies.value[dep]
  ELSE m.peerDependencies.value[dep]

DepKeysOf(m, depType) ==
  IF depType = "dependencies" THEN DOMAIN m.dependencies.value
  ELSE DOMAIN m.peerDependencies.value

\* C5: no step changes, in any manifest, the value of a key of dependencies
\* or peerDependencies that does not name a release package, whatever the
\* release set is.
C5_ExternalDepsUntouched ==
  [][\A d \in DOMAIN files : \A depType \in {"dependencies", "peerDependencies"} :
       \A dep \in DepKeysOf(files[d], depType) :
         ~(IsExactName(dep) \/ IsScopedName(dep)) =>
           DepValue(files'[d], depType, dep) = DepValue(files[d], depType, dep)]_vars

\* C6: once the propagation step has ended, completed or not, all manifests
\* report one version.
C6_NoPartialPropagation ==
  (yes = "yes" /\ pc \notin {"test", "update"}) =>
    \A d1, d2 \in DOMAIN files : files[d1].version = files[d2].version

IsBuildCall(c) == IsCommand(c, "yarn", "build")

\* nothing but an already published package has gone wrong so far: every
\* manifest could be read and written, every command but yarn publish
\* succeeded, and every yarn publish succeeded or failed as already published
OnlyAlreadyPublished ==
  /\ err.kind # "fs"
  /\ \A k \in 1..Len(execaCalls) :
       IF IsPublishCall(execaCalls[k])
       THEN execaCalls[k].result \in {Ok, AlreadyPublished}
       ELSE ~execaCalls[k].result.failed

\* main has returned after giving every public package its publish call and
\* then running git tag v<version>, git push of the tag and git push
ReleasedAndPushed ==
  LET n == Len(execaCalls)
  IN  /\ pc = "returned"
      /\ err = NoError
      /\ \A k \in 1..Len(packages) :
           ~files[getPkgRoot(packages[k])].private =>
             Has(execaCalls, LAMBDA c : IsPublishOf(c, packages[k]))
      /\ n >= 3
      /\ IsTagCall(execaCalls[n - 2])
      /\ IsPushTagCall(execaCalls[n - 1])
      /\ IsPushCall(execaCalls[n])
      /\ \A k \in 1..n : IsPublishCall(execaCalls[k]) => k < n - 2

\* C7: a confirmed live run in which nothing goes wrong but already published
\* errors of yarn publish does not abort: it is never rejected, it can always
\* take its next step, every public package up to the position of the loop
\* has got its publish call, and when main returns it has run git tag
\* v<version>, git push of the tag and git push after the publish calls.
C7_AlreadyPublishedTolerated ==
  (~isDryRun /\ yes = "yes" /\ OnlyAlreadyPublished) =>
    /\ ~Ended
    /\ pc # "returned" => ENABLED Next
    /\ pc = "returned" => ReleasedAndPushed
    /\ \A k \in 1..Len(packages) :
         (pc \in {"tag", "pushTag", "push"} \/ (pc = "publish" /\ k < i)) =>
           (~files[getPkgRoot(packages[k])].private =>
              Has(execaCalls, LAMBDA c : IsPublishOf(c, packages[k])))

\* a live run returned after the first of two packages was already published
C7_Witness ==
  /\ ~isDryRun /\ pc = "returned" /\ yes = "yes" /\ OnlyAlreadyPublished
  /\ \E j, k \in 1..Len(execaCalls) :
       /\ j < k
       /\ IsPublishOf(execaCalls[j], packages[1])
       /\ execaCalls[j].result = AlreadyPublished
       /\ IsPublishOf(execaCalls[k], packages[2])
  /\ Has(execaCalls, IsPushCall)

\* C8: a yarn publish that fails otherwise than as already published is the
\* last command of the run: main is rejected at it (with the error of the
\* command when that carries a stderr text), no later package gets a publish
\* call, no tag and no push is made, and the manifests and the commands
\* already executed stay as they are.
C8_OtherPublishFailureIsFatal ==
  \A k \in 1..Len(execaCalls) :
    LET c == execaCalls[k]
    IN  (IsPublishCall(c) /\ c.result.failed /\ c.result # AlreadyPublished) =>
          /\ k = Len(execaCalls)
          /\ Ended
          /\ err # NoError
          /\ c.result.stderr.defined => err = [kind |-> "command failed", call |-> k]
          /\ IsPublishOf(c, packages[i])
          /\ ~Has(execaCalls, IsTagCall)
          /\ ~Has(execaCalls, LAMBDA x : IsCommand(x, "git", "push"))
          /\ Propagated /\ AllAtTarget

\* the second publish failed without a stderr text after a commit and a
\* first publish, and the run has ended
C8_Witness ==
  /\ pc = "exited"
  /\ Len(packages) = 2
  /\ i = 2
  /\ execaCalls[Len(execaCalls)].result = NoStderr
  /\ Has(execaCalls, LAMBDA c : IsCommand(c, "git", "commit"))
  /\ Has(execaCalls, LAMBDA c : IsPublishOf(c, packages[1]) /\ c.result = Ok)

\* C9: in a live run without skipBuild the build is executed once
\* updateVersions has completed, before any other command; when it fails
\* main is rejected and no further command is executed or recorded; with
\* skipBuild or in a dry run no build is executed or recorded.
C9_BuildGate ==
  /\ (skipBuild \/ isDryRun) =>
       ~Has(execaCalls, IsBuildCall) /\ ~Has(dryRunLog, IsBuildCall)
  /\ (~skipBuild /\ ~isDryRun /\ execaCalls # <<>>) =>
       /\ IsBuildCall(execaCalls[1])
       /\ Propagated
       /\ \A k \in 2..Len(execaCalls) : ~IsBuildCall(execaCalls[k])
  /\ (~skipBuild /\ ~isDryRun /\ pc \in (AfterUpdate \ {"build"})) =>
       execaCalls # <<>>
  /\ \A k \in 1..Len(execaCalls) :
       (IsBuildCall(execaCalls[k]) /\ execaCalls[k].result.failed) =>
         /\ Len(execaCalls) = 1
         /\ dryRunLog = <<>>
         /\ Ended
         /\ err = [kind |-> "command failed", call |-> 1]

\* a live run ended at a failed build
C9_Witness ==
  /\ pc = "exited" /\ ~isDryRun /\ ~skipBuild
  /\ Len(execaCalls) = 1
  /\ IsBuildCall(execaCalls[1]) /\ execaCalls[1].result.failed
  /\ consoleError = [kind |-> "command failed", call |-> 1]
  /\ Len(packages) = 2

\* C10: in a confirmed live run with skipTests unset, the test suite command
\* has been executed once main is past the test stage.
C10_TestsGateRelease ==
  (~isDryRun /\ ~skipTests /\ yes = "yes" /\ pc # "test") =>
    Has(execaCalls, LAMBDA c : IsCommand(c, "yarn", "test"))

(***************************************************************************)
(* The commit stage and the tag and push stage.                            *)
(***************************************************************************)
\* the log that add, commit, publish, tag and push reach: the executed
\* commands in a live run, the recorded ones in a dry run
Issued == IF isDryRun THEN dryRunLog ELSE execaCalls

\* the log those commands must stay out of
NotIssued == IF isDryRun THEN execaCalls ELSE dryRunLog

IsDiffCall(c) == IsCommand(c, "git", "diff")
IsAddCall(c) == IsCommand(c, "git", "add") /\ c.args = << <<"add">>, <<"-A">> >>
IsCommitCall(c) ==
  /\ IsCommand(c, "git", "commit")
  /\ c.args = << <<"commit">>, <<"-m">>, <<"release: v">> \o targetVersion.value >>

\* git diff was executed and printed changes / printed nothing
DiffChanged ==
  Has(execaCalls, LAMBDA c : IsDiffCall(c) /\ ~c.result.failed /\ c.result.stdout # <<>>)
DiffUnchanged ==
  Has(execaCalls, LAMBDA c : IsDiffCall(c) /\ ~c.result.failed /\ c.result.stdout = <<>>)

\* positions of main behind the commit stage of a confirmed run
AfterCommitStage ==
  pc \in {"publish", "tag", "pushTag", "push"} \/ (pc = "returned" /\ yes = "yes")

\* C11: git diff is executed for real in a live and in a dry run; git add
\* and git commit are issued (executed live, recorded in a dry run) exactly
\* when git diff printed something; when it printed nothing neither is
\* issued and main goes on to the publishing.
C11_NoEmptyCommit ==
  LET adds    == Has(Issued, IsAddCall)
      commits == Has(Issued, IsCommitCall)
  IN  /\ ~Has(dryRunLog, IsDiffCall)
      /\ ~Has(NotIssued, LAMBDA c : IsCommand(c, "git", "add") \/ IsCommand(c, "git", "commit"))
      /\ \A k \in 1..Len(Issued) :
           /\ IsCommand(Issued[k], "git", "add") => IsAddCall(Issued[k])
           /\ IsCommand(Issued[k], "git", "commit") => IsCommitCall(Issued[k])
      /\ (adds \/ commits) => DiffChanged
      /\ commits => adds
      /\ pc \in {"add", "commit"} => DiffChanged
      /\ AfterCommitStage =>
           /\ DiffChanged \/ DiffUnchanged
           /\ DiffChanged <=> (adds /\ commits)
      /\ DiffUnchanged =>
           /\ ~adds /\ ~commits
           /\ AfterCommitStage \/ Ended
           /\ Ended => (err.kind \in {"fs", "TypeError"} \/ err.call > 1)

\* a live run whose git diff printed nothing published and returned with no
\* commit
C11_Witness ==
  /\ ~isDryRun /\ pc = "returned" /\ yes = "yes"
  /\ DiffUnchanged
  /\ ~Has(execaCalls, LAMBDA c : IsCommand(c, "git", "commit"))
  /\ Has(execaCalls, IsPublishCall)

\* C12: git tag v<version>, git push origin refs/tags/v<version> and git
\* push are issued in this order, each after the one before it succeeded;
\* when git tag fails no push is issued, when the push of the tag fails the
\* branch is not pushed, and the run ends with the error of that command.
C12_TagThenPushInOrder ==
  /\ \A k \in 1..Len(Issued) :
       LET c == Issued[k]
       IN  /\ IsCommand(c, "git", "tag") =>
                /\ IsTagCall(c)
                /\ \A j \in 1..Len(Issued) : IsCommand(Issued[j], "git", "tag") => j = k
           /\ IsCommand(c, "git", "push") =>
                /\ IsPushTagCall(c) \/ IsPushCall(c)
                /\ k > 1
                /\ IsPushTagCall(c) => IsTagCall(Issued[k - 1])
                /\ IsPushCall(c) => IsPushTagCall(Issued[k - 1])
           /\ (~isDryRun /\ c.result.failed /\ (IsTagCall(c) \/ IsPushTagCall(c) \/ IsPushCall(c))) =>
                /\ k = Len(Issued)
                /\ Ended
                /\ err = [kind |-> "command failed", call |-> k]
                /\ pc = "exited" => consoleError = err
  /\ ~Has(NotIssued, LAMBDA c : IsCommand(c, "git", "tag") \/ IsCommand(c, "git", "push"))
  /\ pc = "pushTag" => Has(Issued, IsTagCall) /\ ~Has(Issued, IsPushTagCall)
  /\ pc = "push" => Has(Issued, IsPushTagCall) /\ ~Has(Issued, IsPushCall)
  /\ (pc = "returned" /\ yes = "yes") =>
       /\ Len(Issued) >= 3
       /\ IsTagCall(Issued[Len(Issued) - 2])
       /\ IsPushTagCall(Issued[Len(Issued) - 1])
       /\ IsPushCall(Issued[Len(Issued)])

\* a live run ended with the error of the failed push of the tag
C12_Witness ==
  /\ ~isDryRun /\ pc = "exited"
  /\ Len(execaCalls) >= 2
  /\ IsPushTagCall(execaCalls[Len(execaCalls)])
  /\ execaCalls[Len(execaCalls)].result.failed
  /\ ~execaCalls[Len(execaCalls) - 1].result.failed
  /\ consoleError = [kind |-> "command failed", call |-> Len(execaCalls)]

(***************************************************************************)
(* The publish command.                                                    *)
(***************************************************************************)
\* the word behind --tag in a publish command, empty when it has no --tag
TagOf(c) ==
  IF Len(c.args) >= 5 /\ c.args[4] = <<"--tag">> THEN c.args[5] ELSE <<>>

\* the release package whose directory the command runs in
PackageOf(c) ==
  CHOOSE name \in {packages[p] : p \in 1..Len(packages)} :
    c.opts.cwd = Some(getPkgRoot(name))

PublishCommands == {Issued[k] : k \in {j \in 1..Len(Issued) : IsPublishCall(Issued[j])}}

\* C13: every publish command is yarn publish --new-version <target>
\* [--tag <word>] --access public, run in the directory of a release package;
\* the word is the --tag override when one is given; otherwise 'alpha' when
\* the target contains 'alpha', else 'beta' when it contains 'beta', else
\* 'rc' when it contains 'rc'; otherwise 'next' when the package is 'vue';
\* otherwise there is no --tag argument.
C13_ReleaseTagPrecedence ==
  \A k \in 1..Len(Issued) :
    LET c == Issued[k]
        v == targetVersion.value
    IN  IsPublishCall(c) =>
          /\ \E p \in 1..Len(packages) : c.opts.cwd = Some(getPkgRoot(packages[p]))
          /\ Len(c.args) \in {5, 7}
          /\ SubSeq(c.args, 1, 3) = << <<"publish">>, <<"--new-version">>, v >>
          /\ SubSeq(c.args, Len(c.args) - 1, Len(c.args)) = << <<"--access">>, <<"public">> >>
          /\ Len(c.args) = 7 => c.args[4] = <<"--tag">> /\ c.args[5] # <<>>
          /\ IF args.tag.defined THEN TagOf(c) = args.tag.value
             ELSE IF Includes(v, sAlpha) THEN TagOf(c) = sAlpha
             ELSE IF Includes(v, sBeta) THEN TagOf(c) = sBeta
             ELSE IF Includes(v, sRc) THEN TagOf(c) = sRc
             ELSE IF PackageOf(c) = sVue THEN TagOf(c) = <<"next">>
             ELSE Len(c.args) = 5

\* a live run with a --tag override released a version that contains 'beta':
\* both packages were published under the override
C13_Witness ==
  /\ ~isDryRun /\ pc = "returned" /\ yes = "yes"
  /\ args.tag.defined
  /\ Includes(targetVersion.value, sBeta)
  /\ Cardinality(PublishCommands) = 2
  /\ \A c \in PublishCommands : TagOf(c) = args.tag.value

\* C14, as claimed: without a --tag override, a publish command carries
\* --tag alpha, beta or rc only when the leading prerelease identifier of
\* the target version is that word.
C14_AsClaimed ==
  ~args.tag.defined =>
    \A c \in PublishCommands :
      TagOf(c) \in {sAlpha, sBeta, sRc} =>
        LET pre == Prerelease(targetVersion.value)
        IN  pre.some /\ PreIdText(pre.ids[1]) = TagOf(c)

\* C14, amended: without a --tag override, the tag follows the text of the
\* target version, wherever the word stands in it: --tag alpha exactly when
\* the text contains 'alpha', --tag beta exactly when it contains 'beta' and
\* not 'alpha', --tag rc exactly when it contains 'rc' and neither of them.
C14_TagFollowsVersionText ==
  ~args.tag.defined =>
    \A c \in PublishCommands :
      LET v == targetVersion.value
      IN  /\ TagOf(c) = sAlpha <=> Includes(v, sAlpha)
          /\ TagOf(c) = sBeta <=> (Includes(v, sBeta) /\ ~Includes(v, sAlpha))
          /\ TagOf(c) = sRc <=>
               (Includes(v, sRc) /\ ~Includes(v, sAlpha) /\ ~Includes(v, sBeta))

\* a version whose only 'alpha' is its build metadata was published under
\* --tag alpha
C14_Witness ==
  /\ ~args.tag.defined
  /\ targetVersion.defined
  /\ ~Prerelease(targetVersion.value).some
  /\ PublishCommands # {}
  /\ \A c \in PublishCommands : TagOf(c) = sAlpha

\* publishPackage returns before the publish command for this package: it
\* is in the skip set, or its manifest is readable and marked private
IsSkipped(pkgName) ==
  \/ SeqIncludes(skippedPackages, pkgName)
  \/ /\ files[getPkgRoot(pkgName)].io # "fails"
     /\ files[getPkgRoot(pkgName)].private

\* C15: for a release package that is private or in the skip set no publish
\* command is ever executed or recorded, and the turn of the publish loop
\* for it goes on to the next package (to the tag after the last one)
\* without an error.
C15_PrivateNeverPublished ==
  /\ [](\A p \in 1..Len(packages) :
         IsSkipped(packages[p]) =>
           /\ ~Has(execaCalls, LAMBDA c : IsPublishOf(c, packages[p]))
           /\ ~Has(dryRunLog, LAMBDA c : IsPublishOf(c, packages[p])))
  /\ [][(pc = "publish" /\ IsSkipped(packages[i])) =>
         /\ i' = i + 1
         /\ pc' = IF i = Len(packages) THEN "tag" ELSE "publish"
         /\ UNCHANGED <<execaCalls, dryRunLog, err, files>>]_vars

\* a live run passed a private package, published a public one and returned
C15_Witness ==
  /\ ~isDryRun /\ pc = "returned" /\ yes = "yes"
  /\ Len(packages) = 2
  /\ IsSkipped(packages[1]) /\ ~IsSkipped(packages[2])
  /\ Has(execaCalls, LAMBDA c : IsPublishOf(c, packages[2]))
  /\ ~Has(execaCalls, LAMBDA c : IsPublishOf(c, packages[1]))

(***************************************************************************)
(* The increments.                                                         *)
(***************************************************************************)
BaseIncrements == <<"patch", "minor", "major">>
PreIncrements == <<"prepatch", "preminor", "premajor", "prerelease">>

\* the characters of identifiers in ASCII order
AsciiOrder ==
  <<"-", "0", "1", "2", "3", "4", "5", "6", "7", "8", "9",
    "A", "B", "C", "D", "E", "F", "G", "H", "I", "J", "K", "L", "M",
    "N", "O", "P", "Q", "R", "S", "T", "U", "V", "W", "X", "Y", "Z",
    "a", "b", "c", "d", "e", "f", "g", "h", "i", "j", "k", "l", "m",
    "n", "o", "p", "q", "r", "s", "t", "u", "v", "w", "x", "y", "z">>

RECURSIVE TextLess(_, _)
\* a sorts before b in ASCII order
TextLess(a, b) ==
  IF b = <<>> THEN FALSE
  ELSE IF a = <<>> THEN TRUE
  ELSE IF a[1] = b[1] THEN TextLess(Tail(a), Tail(b))
  ELSE IndexOf(AsciiOrder, a[1]) < IndexOf(AsciiOrder, b[1])

\* precedence of two prerelease identifiers: numbers by value, a number
\* below a word, words in ASCII order
IdLess(x, y) ==
  IF x.num /\ y.num THEN x.n < y.n
  ELSE IF x.num THEN TRUE
  ELSE IF y.num THEN FALSE
  ELSE TextLess(x.s, y.s)

RECURSIVE PreLess(_, _)
\* precedence of two lists of prerelease identifiers: the first difference
\* decides, and a list is above each of its proper prefixes
PreLess(p, q) ==
  IF q = <<>> THEN FALSE
  ELSE IF p = <<>> THEN TRUE
  ELSE IF p[1] = q[1] THEN PreLess(Tail(p), Tail(q))
  ELSE IdLess(p[1], q[1])

\* a < b in the precedence of semantic versions
SemVerLess(a, b) ==
  IF a.major # b.major THEN a.major < b.major
  ELSE IF a.minor # b.minor THEN a.minor < b.minor
  ELSE IF a.patch # b.patch THEN a.patch < b.patch
  ELSE IF a.prerelease = <<>> THEN FALSE
  ELSE IF b.prerelease = <<>> THEN TRUE
  ELSE PreLess(a.prerelease, b.prerelease)

\* C16, as claimed: the increments offered are patch, minor and major, and
\* prepatch, preminor, premajor and prerelease besides exactly when the
\* current version has a prerelease identifier, whatever --preid is.
C16_AsClaimed ==
  versionIncrements =
    BaseIncrements \o (IF Prerelease(currentVersion).some THEN PreIncrements ELSE <<>>)

\* C16, amended: the increments offered are patch, minor and major, and
\* prepatch, preminor, premajor and prerelease besides exactly when --preid
\* is given, or the current version has a leading prerelease identifier
\* that is not the number 0; an increment picked at the prompt is one of
\* those offered.
C16_PreIncrementsNeedPreid ==
  LET lead == Prerelease(currentVersion)
      pre  == \/ args.preid.defined
              \/ lead.some /\ lead.ids[1] # NumId(0)
      offered == BaseIncrements \o (IF pre THEN PreIncrements ELSE <<>>)
  IN  /\ versionIncrements = offered
      /\ (~args.positional.defined /\ targetVersion.defined /\ pc = "validate") =>
           \/ targetVersion.value \in VersionInputs \cup {vEmpty}
           \/ \E k \in 1..Len(offered) :
                targetVersion.value =
                  SemverIncText(currentVersion, offered[k],
                                IF args.preid.defined
                                THEN [some |-> TRUE, id |-> PreId(args.preid.value)]
                                ELSE IF lead.some /\ pre
                                THEN [some |-> TRUE, id |-> lead.ids[1]]
                                ELSE NoIdentifier)

\* with --preid and a current version without a prerelease, the operator
\* picked the prerelease increment
C16_Witness ==
  /\ pc = "validate"
  /\ args.preid.defined
  /\ Valid(currentVersion) /\ ~Prerelease(currentVersion).some
  /\ targetVersion.defined
  /\ Prerelease(targetVersion.value).some
  /\ targetVersion.value \notin VersionInputs

\* C17: for a valid current version, every increment offered by the select
\* prompt is a version strictly above the current version in the
\* precedence of semantic versions.
C17_IncrementIsGreater ==
  (pc = "select" /\ Valid(currentVersion)) =>
    \A k \in 1..Len(versionIncrements) :
      /\ Valid(inc(versionIncrements[k]))
      /\ SemVerLess(SemVer(currentVersion), SemVer(inc(versionIncrements[k])))

(***************************************************************************)
(* The order of the stages.                                                *)
(***************************************************************************)
\* the stage a command belongs to, in the order of main
StageOf(c) ==
  CASE IsBuildCall(c) -> 1
    [] IsDiffCall(c) -> 2
    [] IsCommand(c, "git", "add") -> 3
    [] IsCommand(c, "git", "commit") -> 4
    [] IsPublishCall(c) -> 5
    [] IsCommand(c, "git", "tag") -> 6
    [] IsPushTagCall(c) -> 7
    [] OTHER -> 8

\* the place in the listing of packages/ of the directory a command runs in
ListingPosition(c) ==
  CHOOSE k \in 1..Len(listing) : c.opts.cwd = Some(getPkgRoot(listing[k]))

\* the commands of a log stand in the order of the stages, one command per
\* stage but for the publish commands, which stand in the order of the listing
InStageOrder(log) ==
  \A j, k \in 1..Len(log) :
    j < k =>
      IF IsPublishCall(log[j]) /\ IsPublishCall(log[k])
      THEN ListingPosition(log[j]) < ListingPosition(log[k])
      ELSE StageOf(log[j]) < StageOf(log[k])

NoCommandYet == execaCalls = <<>> /\ dryRunLog = <<>>

\* C18: the stages run one after the other: nothing is written and no
\* command is issued before the operator confirmed; the test stage comes
\* before the first manifest write; every manifest is written before the
\* first command (build, git diff, commit, publish, tag, push) and none is
\* written after it; the commands follow the order build, git diff, git add,
\* git commit, publish, git tag, push of the tag, push; the packages are
\* published one at a time in the order of the listing of packages/.
C18_StagesInOrder ==
  /\ [](/\ yes # "yes" => (writes = <<>> /\ NoCommandYet)
        /\ pc = "test" => (yes = "yes" /\ writes = <<>>)
        /\ pc \in {"test", "update"} => NoCommandYet
        /\ ~NoCommandYet => (Propagated /\ AllAtTarget)
        /\ dryRunLog # <<>> => Has(execaCalls, IsDiffCall)
        /\ (~isDryRun /\ ~skipBuild /\ execaCalls # <<>>) => IsBuildCall(execaCalls[1])
        /\ InStageOrder(execaCalls)
        /\ InStageOrder(dryRunLog)
        /\ pc = "publish" =>
             \A k \in 1..Len(Issued) :
               IsPublishCall(Issued[k]) =>
                 \E p \in 1..(i - 1) : IsPublishOf(Issued[k], packages[p]))
  /\ [][~NoCommandYet => UNCHANGED <<files, writes>>]_vars

\* a live run built, committed, published two packages, tagged and pushed
C18_Witness ==
  /\ ~isDryRun /\ pc = "returned"
  /\ Len(execaCalls) = 9
  /\ IsBuildCall(execaCalls[1])
  /\ IsCommitCall(execaCalls[4])
  /\ IsPublishCall(execaCalls[5]) /\ IsPublishCall(execaCalls[6])
  /\ IsPushCall(execaCalls[9])

(***************************************************************************)
(* A dry run against a live run.                                           *)
(***************************************************************************)
Command(bin, a, opts) == [bin |-> bin, args |-> a, opts |-> opts]

\* a call of execa without its result
Issue(c) == Command(c.bin, c.args, c.opts)

\* the release packages that are not private, in the order of packages
PublicPackages ==
  SelectSeq(packages, LAMBDA name : ~files[getPkgRoot(name)].private)

\* the commit, publish, tag and push commands of a release, given whether
\* git diff printed changes; the mode of the run is no part of it
ReleaseCommands(changed) ==
  LET v == targetVersion.value
  IN  (IF changed
       THEN << Command(<<"git">>, << <<"add">>, <<"-A">> >>, NoOpts),
               Command(<<"git">>, << <<"commit">>, <<"-m">>, <<"release: v">> \o v >>, NoOpts) >>
       ELSE <<>>) \o
      [k \in 1..Len(PublicPackages) |->
         Command(<<"yarn">>, PublishArgs(PublicPackages[k], v),
                 [cwd |-> Some(getPkgRoot(PublicPackages[k])), stdio |-> Some(<<"pipe">>)])] \o
      << Command(<<"git">>, << <<"tag">>, <<"v">> \o v >>, NoOpts),
         Command(<<"git">>, << <<"push">>, <<"origin">>, <<"refs/tags/v">> \o v >>, NoOpts),
         Command(<<"git">>, << <<"push">> >>, NoOpts) >>

\* the commands a live run executed behind the build and git diff
ExecutedRelease ==
  LET kept == SelectSeq(execaCalls, LAMBDA c : ~IsBuildCall(c) /\ ~IsDiffCall(c))
  IN  [k \in 1..Len(kept) |-> Issue(kept[k])]

AllSucceeded == \A k \in 1..Len(execaCalls) : ~execaCalls[k].result.failed

\* C19: at the end of a confirmed run, the commands a dry run recorded and
\* the commit, publish, tag and push commands a live run executed with
\* every command succeeding are the same sequence, with arguments and
\* working directories: the one fixed by the target version, --tag, the
\* packages, their manifests and the outcome of git diff.
C19_DryRunRecordsLiveCommands ==
  (pc = "returned" /\ yes = "yes") =>
    /\ isDryRun => dryRunLog = ReleaseCommands(DiffChanged)
    /\ (~isDryRun /\ AllSucceeded) => ExecutedRelease = ReleaseCommands(DiffChanged)

\* a dry run returned after recording a commit, two publish commands, the
\* tag and the pushes
C19_Witness ==
  /\ isDryRun /\ pc = "returned" /\ DiffChanged
  /\ Len(dryRunLog) = 7
  /\ IsPublishOf(dryRunLog[3], packages[1])
  /\ IsPublishOf(dryRunLog[4], packages[2])

(***************************************************************************)
(* Failures behind the propagation.                                        *)
(***************************************************************************)
\* main was rejected by a command: execa rejected, or the catch of
\* publishPackage threw on an error without stderr
CommandRejected == err.kind \in {"command failed", "TypeError"}

\* C20: when the build, git diff, the commit, a publish, the tag or a push
\* fails, nothing is rolled back: every manifest has been written and still
\* reports the target version, from the failure on to the end of the run;
\* the failed command is the last one executed and nothing is recorded or
\* executed after it; the error reaches main().catch and is printed.
C20_NoRollbackAfterFailure ==
  /\ [](CommandRejected =>
          /\ Ended
          /\ Propagated /\ AllAtTarget
          /\ execaCalls # <<>> /\ execaCalls[Len(execaCalls)].result.failed
          /\ err.kind = "command failed" => err.call = Len(execaCalls)
          /\ pc = "rejected" => ENABLED Catch
          /\ pc = "exited" => consoleError = err)
  /\ [][Ended => UNCHANGED <<files, writes, execaCalls, dryRunLog, err>>]_vars

\* a live run ended with the printed error of a failed publish of the
\* second package, every manifest reporting the target version
C20_Witness ==
  /\ pc = "exited"
  /\ consoleError = [kind |-> "command failed", call |-> Len(execaCalls)]
  /\ Len(packages) = 2 /\ i = 2
  /\ IsPublishOf(execaCalls[Len(execaCalls)], packages[2])
  /\ AllAtTarget
  /\ targetVersion.value # currentVersion

====
